---------------------------- MODULE Spec2Model ----------------------------
(***************************************************************************)
(* The client role of the secret handshake (src/src/client.rs) as a state  *)
(* machine: one action per await point or straight-line block of           *)
(* try_client_side and client_side, run against a responder, a byte-stream *)
(* transport that may fail, and a network that may tamper with the         *)
(* server-to-client direction.  Cryptographic primitives are symbolic.     *)
(***************************************************************************)
EXTENDS Integers, Sequences, FiniteSets, TLC

(***************************************************************************)
(* Bounds of the model.                                                    *)
(***************************************************************************)
\* number of distinct network keys
NumNetKeys == 2
\* number of distinct ephemeral keypairs each role can generate
NumEph == 2
\* number of distinct server long-term identities
NumServerIds == 2

(***************************************************************************)
(* Keys.  A keypair is named by an identity <<class, index>>; its public   *)
(* and secret halves are tagged tuples.  LowOrder names the degenerate     *)
(* keypair, whose scalar multiplication yields an invalid point.           *)
(***************************************************************************)
NetKeys == 1..NumNetKeys

ClientEphs == {<<"ceph", i>> : i \in 1..NumEph}

ServerEphs == {<<"seph", i>> : i \in 1..NumEph}

ClientIds == {<<"client", 1>>}

ServerIds == {<<"server", i>> : i \in 1..NumServerIds}

LowOrder == <<"low", 0>>

Pk(k) == <<"pk", k[1], k[2]>>

Sk(k) == <<"sk", k[1], k[2]>>

IdOf(key) == <<key[2], key[3]>>

\* the public key a variable holds before the code has bound it
NoKey == <<"pk", "none", 0>>

\* Diffie-Hellman: commutative in the two keypairs; the empty set is None
DeriveSharedSecret(sk, pk) ==
    IF IdOf(sk) = LowOrder \/ IdOf(pk) = LowOrder
    THEN {}
    ELSE {IdOf(sk), IdOf(pk)}

\* SharedA::client_side(eph_sk, server_eph_pk)
SharedAClientSide(eph_sk, server_eph) == DeriveSharedSecret(eph_sk, server_eph)

\* SharedB::client_side(eph_sk, server_pk)
SharedBClientSide(eph_sk, spk) == DeriveSharedSecret(eph_sk, spk)

\* SharedC::client_side(keypair, server_eph_pk)
SharedCClientSide(kp, server_eph) == DeriveSharedSecret(Sk(kp), server_eph)

(***************************************************************************)
(* Wire messages.  kind stands for the fixed size and layout of a record,  *)
(* flip for a bit of it having been changed in flight.                     *)
(***************************************************************************)
\* ClientHello::new(eph_pk, net_key); a ServerHello has the same layout
HelloNew(eph_pk, nk) ==
    [kind |-> "hello", hmac |-> <<nk, eph_pk>>, pk |-> eph_pk, flip |-> FALSE]

\* ServerHello::verify(net_key): Some(server_eph_pk), or None as NoKey
HelloVerify(m, nk) ==
    IF m.kind = "hello" /\ ~m.flip /\ m.hmac = <<nk, m.pk>> THEN m.pk ELSE NoKey

\* a detached signature: who signed, and what
Sign(kp, msg) == <<kp, msg>>

ClientSig(kp, spk, nk, a) == Sign(kp, <<nk, spk, a>>)

\* ClientAuth::new(keypair, server_pk, net_key, shared_a, shared_b)
ClientAuthNew(kp, spk, nk, a, b) ==
    [kind |-> "auth", box |-> <<nk, a, b>>, sig |-> ClientSig(kp, spk, nk, a),
     pk |-> Pk(kp), flip |-> FALSE]

\* the ServerAccept a server holding long-term keypair skp builds
ServerAcceptNew(skp, cpk, csig, nk, a, b, c) ==
    [kind |-> "accept", box |-> <<nk, a, b, c>>,
     sig |-> Sign(skp, <<nk, csig, cpk, a>>), flip |-> FALSE]

\* ServerAccept::verify(keypair, server_pk, net_key, a, b, c)
AcceptVerify(m, kp, spk, nk, a, b, c) ==
    /\ m.kind = "accept"
    /\ ~m.flip
    /\ m.box = <<nk, a, b, c>>
    /\ m.sig = Sign(IdOf(spk), <<nk, ClientSig(kp, spk, nk, a), Pk(kp), a>>)

(***************************************************************************)
(* Session key derivation.                                                 *)
(***************************************************************************)
\* client_to_server_key(server_pk, net_key, a, b, c)
ClientToServerKey(spk, nk, a, b, c) == <<"key", nk, a, b, c, spk>>

\* server_to_client_key(client_pk, net_key, a, b, c)
ServerToClientKey(cpk, nk, a, b, c) == <<"key", nk, a, b, c, cpk>>

\* starting_nonce(net_key, eph_pk)
StartingNonce(nk, eph_pk) == <<"nonce", nk, eph_pk>>

(***************************************************************************)
(* Results.  Every result has the same fields, so that results compare.    *)
(***************************************************************************)
Pending == [tag |-> "pending", err |-> "", io |-> "", keys |-> <<>>]

Err(e) == [tag |-> "Err", err |-> e, io |-> "", keys |-> <<>>]

\* From<io::Error> for HandshakeError, applied by `?`
IoErr(kind) == [tag |-> "Err", err |-> "Io", io |-> kind, keys |-> <<>>]

Ok(bundle) == [tag |-> "Ok", err |-> "", io |-> "", keys |-> <<bundle>>]

IoErrKinds == {"UnexpectedEof", "BrokenPipe"}

\* what a buffer holds before anything was read into it
NoMsg == [kind |-> "none", flip |-> FALSE]

VARIABLES
    net_key, keypair, server_pk,    \* the arguments of client_side
    s_net_key, s_keypair,           \* the responder's network key and identity
    reliable,                       \* the transport never fails, nobody tampers
    pc,                             \* where client_side is
    eph,                            \* the client's ephemeral keypair
    hello_buf, accept_buf,          \* the bytes read for the two server messages
    server_eph_pk,                  \* the verified server ephemeral public key
    shared_a, shared_b, shared_c,   \* the shared secrets bound so far
    computed,                       \* the secrets whose derivation was attempted
    r,                              \* the result of try_client_side
    result,                         \* the result client_side returned
    closes,                         \* the outcomes of the close calls made
    trace,                          \* the transport operations completed
    c2s, s2c,                       \* messages in flight, per direction
    c2s_eof, s2c_eof,               \* the sending end of the direction is closed
    injected,                       \* the reads the network has put a record in front of
    s_pc, s_eph, s_client_eph_pk, s_a, s_b, s_c, s_client_pk, s_client_sig,
    s_result                        \* the responder

clientVars == <<pc, eph, hello_buf, accept_buf, server_eph_pk, shared_a, shared_b,
                shared_c, computed, r, result, closes, trace>>

configVars == <<net_key, keypair, server_pk, s_net_key, s_keypair, reliable>>

serverVars == <<s_pc, s_eph, s_client_eph_pk, s_a, s_b, s_c, s_client_pk,
                s_client_sig, s_result>>

netVars == <<c2s, s2c, c2s_eof, s2c_eof, injected>>

vars == <<configVars, clientVars, serverVars, netVars>>

(***************************************************************************)
(* The transport, as the client sees it.                                   *)
(***************************************************************************)
\* write_all then completes, or fails with an I/O error
WriteOutcomes == IF reliable THEN {"ok"} ELSE {"ok"} \cup IoErrKinds

\* close completes, or fails with an I/O error
CloseOutcomes == IF reliable THEN {"ok"} ELSE {"ok"} \cup IoErrKinds

\* a read that never notices that the peer has closed the stream
ReadOutcomesEofUnnoticed ==
    (IF s2c # <<>> THEN {[io |-> "ok", msg |-> Head(s2c)]} ELSE {})
    \cup (IF reliable THEN {} ELSE {[io |-> e, msg |-> NoMsg] : e \in IoErrKinds})

\* read_exact delivers one whole record, or fails: UnexpectedEof when the
\* stream ends before the record is complete
ReadOutcomes ==
    (IF s2c # <<>> THEN {[io |-> "ok", msg |-> Head(s2c)]} ELSE {})
    \cup (IF s2c = <<>> /\ s2c_eof
          THEN {[io |-> "UnexpectedEof", msg |-> NoMsg]} ELSE {})
    \cup (IF reliable THEN {} ELSE {[io |-> e, msg |-> NoMsg] : e \in IoErrKinds})

Done(op, name, out) == [op |-> op, msg |-> name, io |-> out]

(***************************************************************************)
(* try_client_side                                                         *)
(***************************************************************************)
\* a transport operation whose error is not looked at
AfterIoIgnored(out, next) == next

\* `?` on the io::Result of a transport operation: go on, or leave the body
AfterIo(out, next) == IF out = "ok" THEN next ELSE "try_done"

\* a transport error reported without the io::Error it came from
IoResultKindLost(out) == IF out = "ok" THEN Pending ELSE IoErr("Other")

\* `?` on the io::Result of a transport operation: the body's result so far
IoResult(out) == IF out = "ok" THEN Pending ELSE IoErr(out)

\* the error the body returns when its i-th transport operation fails with
\* out: each of the four awaits converts the io::Error with the same `?`
ErrorAtStep(i, out) == IoResult(out)

\* lines 43-47: generate the ephemeral keypair
GenerateEphemeral ==
    /\ pc = "start"
    /\ \E e \in ClientEphs : eph' = e
    /\ pc' = "send_hello"
    /\ UNCHANGED <<hello_buf, accept_buf, server_eph_pk, shared_a, shared_b,
                   shared_c, computed, r, result, closes, trace>>
    /\ UNCHANGED <<configVars, serverVars, netVars>>

\* line 49: send(ClientHello::new(eph_pk, net_key)).await?
SendClientHello ==
    /\ pc = "send_hello"
    /\ \E out \in WriteOutcomes :
        /\ c2s' = IF out = "ok" THEN Append(c2s, HelloNew(Pk(eph), net_key)) ELSE c2s
        /\ trace' = Append(trace, Done("write", "ClientHello", out))
        /\ r' = IoResult(out)
        /\ pc' = AfterIo(out, "read_hello")
    /\ UNCHANGED <<eph, hello_buf, accept_buf, server_eph_pk, shared_a, shared_b,
                   shared_c, computed, result, closes>>
    /\ UNCHANGED <<configVars, serverVars, s2c, c2s_eof, s2c_eof, injected>>

\* a ServerHello whose key is used without checking its authenticator
HelloOutcomeUnverified(m) ==
    IF m.kind = "hello"
    THEN [key |-> m.pk, r |-> Pending]
    ELSE [key |-> NoKey, r |-> Err("ServerHelloVerifyFailed")]

\* a ServerHello checked against the network key its own authenticator names
HelloOutcomeSelfKeyed(m) ==
    IF m.kind = "hello" /\ HelloVerify(m, m.hmac[1]) # NoKey
    THEN [key |-> m.pk, r |-> Pending]
    ELSE [key |-> NoKey, r |-> Err("ServerHelloVerifyFailed")]

\* lines 54-56: as_mut::<ServerHello>(buf).verify(net_key).ok_or(..)?
\* the key bound to server_eph_pk, or the error the body returns
HelloOutcome(m) ==
    IF HelloVerify(m, net_key) = NoKey
    THEN [key |-> NoKey, r |-> Err("ServerHelloVerifyFailed")]
    ELSE [key |-> HelloVerify(m, net_key), r |-> Pending]

\* lines 51-57: read exactly one ServerHello and verify it
ReadServerHello ==
    /\ pc = "read_hello"
    /\ \E o \in ReadOutcomes :
        /\ trace' = Append(trace, Done("read", "ServerHello", o.io))
        /\ IF o.io = "ok"
           THEN /\ s2c' = Tail(s2c)
                /\ hello_buf' = o.msg
                /\ r' = HelloOutcome(o.msg).r
                /\ server_eph_pk' = HelloOutcome(o.msg).key
                /\ pc' = IF r'.tag = "Err" THEN "try_done" ELSE "derive"
           ELSE /\ r' = IoResult(o.io)
                /\ pc' = AfterIo(o.io, "derive")
                /\ UNCHANGED <<s2c, hello_buf, server_eph_pk>>
    /\ UNCHANGED <<eph, accept_buf, shared_a, shared_b, shared_c, computed,
                   result, closes>>
    /\ UNCHANGED <<configVars, serverVars, c2s, c2s_eof, s2c_eof, injected>>

\* the derivation with the check of shared secret B left out
SecretsUncheckedB ==
    LET a == SharedAClientSide(Sk(eph), server_eph_pk)
        b == SharedBClientSide(Sk(eph), server_pk)
        c == SharedCClientSide(keypair, server_eph_pk)
    IN  IF a = {} THEN [a |-> {}, b |-> {}, c |-> {}, tried |-> {"A"},
                        r |-> Err("SharedAInvalid")]
        ELSE IF c = {} THEN [a |-> a, b |-> b, c |-> {}, tried |-> {"A", "B", "C"},
                             r |-> Err("SharedCInvalid")]
        ELSE [a |-> a, b |-> b, c |-> c, tried |-> {"A", "B", "C"}, r |-> Pending]

\* the derivation with the check of shared secret C left out
SecretsUncheckedC ==
    LET a == SharedAClientSide(Sk(eph), server_eph_pk)
        b == SharedBClientSide(Sk(eph), server_pk)
        c == SharedCClientSide(keypair, server_eph_pk)
    IN  IF a = {} THEN [a |-> {}, b |-> {}, c |-> {}, tried |-> {"A"},
                        r |-> Err("SharedAInvalid")]
        ELSE IF b = {} THEN [a |-> a, b |-> {}, c |-> {}, tried |-> {"A", "B"},
                             r |-> Err("SharedBInvalid")]
        ELSE [a |-> a, b |-> b, c |-> c, tried |-> {"A", "B"}, r |-> Pending]

\* the derivation with shared secret B checked before shared secret A
SecretsBFirst ==
    LET a == SharedAClientSide(Sk(eph), server_eph_pk)
        b == SharedBClientSide(Sk(eph), server_pk)
        c == SharedCClientSide(keypair, server_eph_pk)
    IN  IF b = {} THEN [a |-> {}, b |-> {}, c |-> {}, tried |-> {"B"},
                        r |-> Err("SharedBInvalid")]
        ELSE IF a = {} THEN [a |-> {}, b |-> b, c |-> {}, tried |-> {"A", "B"},
                             r |-> Err("SharedAInvalid")]
        ELSE IF c = {} THEN [a |-> a, b |-> b, c |-> {}, tried |-> {"A", "B", "C"},
                             r |-> Err("SharedCInvalid")]
        ELSE [a |-> a, b |-> b, c |-> c, tried |-> {"A", "B", "C"}, r |-> Pending]

\* lines 60-62: the secrets derived, in order, up to the first invalid one
Secrets ==
    LET a == SharedAClientSide(Sk(eph), server_eph_pk)
        b == SharedBClientSide(Sk(eph), server_pk)
        c == SharedCClientSide(keypair, server_eph_pk)
    IN  IF a = {} THEN [a |-> {}, b |-> {}, c |-> {}, tried |-> {"A"},
                        r |-> Err("SharedAInvalid")]
        ELSE IF b = {} THEN [a |-> a, b |-> {}, c |-> {}, tried |-> {"A", "B"},
                             r |-> Err("SharedBInvalid")]
        ELSE IF c = {} THEN [a |-> a, b |-> b, c |-> {}, tried |-> {"A", "B", "C"},
                             r |-> Err("SharedCInvalid")]
        ELSE [a |-> a, b |-> b, c |-> c, tried |-> {"A", "B", "C"}, r |-> Pending]

\* lines 59-62: derive shared secrets
DeriveSecrets ==
    /\ pc = "derive"
    /\ shared_a' = Secrets.a
    /\ shared_b' = Secrets.b
    /\ shared_c' = Secrets.c
    /\ computed' = Secrets.tried
    /\ r' = Secrets.r
    /\ pc' = IF r'.tag = "Err" THEN "try_done" ELSE "send_auth"
    /\ UNCHANGED <<eph, hello_buf, accept_buf, server_eph_pk, result, closes, trace>>
    /\ UNCHANGED <<configVars, serverVars, netVars>>

\* lines 64-69: send(ClientAuth::new(..)).await?
SendClientAuth ==
    /\ pc = "send_auth"
    /\ \E out \in WriteOutcomes :
        /\ c2s' = IF out = "ok"
                  THEN Append(c2s, ClientAuthNew(keypair, server_pk, net_key,
                                                 shared_a, shared_b))
                  ELSE c2s
        /\ trace' = Append(trace, Done("write", "ClientAuth", out))
        /\ r' = IoResult(out)
        /\ pc' = AfterIo(out, "read_accept")
    /\ UNCHANGED <<eph, hello_buf, accept_buf, server_eph_pk, shared_a, shared_b,
                   shared_c, computed, result, closes>>
    /\ UNCHANGED <<configVars, serverVars, s2c, c2s_eof, s2c_eof, injected>>

\* the bundle with the two starting nonces taken from the wrong ephemeral keys
BundleNoncesSwapped ==
    [read_key |-> ServerToClientKey(Pk(keypair), net_key, shared_a, shared_b, shared_c),
     read_starting_nonce |-> StartingNonce(net_key, server_eph_pk),
     write_key |-> ClientToServerKey(server_pk, net_key, shared_a, shared_b, shared_c),
     write_starting_nonce |-> StartingNonce(net_key, Pk(eph)),
     peer_key |-> server_pk]

\* the bundle with both keys anchored on the server's long-term public key
BundleSameAnchor ==
    [read_key |-> ServerToClientKey(server_pk, net_key, shared_a, shared_b, shared_c),
     read_starting_nonce |-> StartingNonce(net_key, Pk(eph)),
     write_key |-> ClientToServerKey(server_pk, net_key, shared_a, shared_b, shared_c),
     write_starting_nonce |-> StartingNonce(net_key, server_eph_pk),
     peer_key |-> server_pk]

\* lines 79-93: the HandshakeKeys returned on success
Bundle ==
    [read_key |-> ServerToClientKey(Pk(keypair), net_key, shared_a, shared_b, shared_c),
     read_starting_nonce |-> StartingNonce(net_key, Pk(eph)),
     write_key |-> ClientToServerKey(server_pk, net_key, shared_a, shared_b, shared_c),
     write_starting_nonce |-> StartingNonce(net_key, server_eph_pk),
     peer_key |-> server_pk]

\* a ServerAccept accepted without verification
AcceptResultUnverified(m) == Ok(Bundle)

\* a failed ServerAccept reported under the other message's name
AcceptResultMisnamed(m) ==
    IF AcceptVerify(m, keypair, server_pk, net_key, shared_a, shared_b, shared_c)
    THEN Ok(Bundle)
    ELSE Err("ServerHelloVerifyFailed")

\* lines 73-93: verify the ServerAccept, then build the bundle
AcceptResult(m) ==
    IF AcceptVerify(m, keypair, server_pk, net_key, shared_a, shared_b, shared_c)
    THEN Ok(Bundle)
    ELSE Err("ServerAcceptVerifyFailed")

\* lines 71-93: read exactly one ServerAccept, verify it, return the keys
ReadServerAccept ==
    /\ pc = "read_accept"
    /\ \E o \in ReadOutcomes :
        /\ trace' = Append(trace, Done("read", "ServerAccept", o.io))
        /\ IF o.io = "ok"
           THEN /\ s2c' = Tail(s2c)
                /\ accept_buf' = o.msg
                /\ r' = AcceptResult(o.msg)
           ELSE /\ r' = IoResult(o.io)
                /\ UNCHANGED <<s2c, accept_buf>>
    /\ pc' = "try_done"
    /\ UNCHANGED <<eph, hello_buf, server_eph_pk, shared_a, shared_b, shared_c,
                   computed, result, closes>>
    /\ UNCHANGED <<configVars, serverVars, c2s, c2s_eof, s2c_eof, injected>>

(***************************************************************************)
(* client_side                                                             *)
(***************************************************************************)
\* the stream closed on success instead of on failure
MustCloseInverted == r.tag = "Ok"

\* the stream closed whatever the result
MustCloseAlways == TRUE

\* line 26: if r.is_err()
MustClose == r.tag = "Err"

\* a failed close propagated in place of the handshake's own error
AfterCloseReported(res, out) == IF out = "ok" THEN res ELSE IoErr(out)

\* line 27: stream.close().await.unwrap_or(()) leaves r as it is
AfterClose(res, out) == res

\* lines 26-28: close the stream on handshake failure
CloseStream ==
    /\ pc = "try_done"
    /\ MustClose
    /\ \E out \in CloseOutcomes :
        /\ closes' = Append(closes, out)
        /\ r' = AfterClose(r, out)
        /\ c2s_eof' = (c2s_eof \/ out = "ok")
    /\ pc' = "closed"
    /\ UNCHANGED <<eph, hello_buf, accept_buf, server_eph_pk, shared_a, shared_b,
                   shared_c, computed, result, trace>>
    /\ UNCHANGED <<configVars, serverVars, c2s, s2c, s2c_eof, injected>>

\* line 29: r
Return ==
    /\ \/ pc = "closed"
       \/ pc = "try_done" /\ ~MustClose
    /\ result' = r
    /\ pc' = "returned"
    /\ UNCHANGED <<eph, hello_buf, accept_buf, server_eph_pk, shared_a, shared_b,
                   shared_c, computed, r, closes, trace>>
    /\ UNCHANGED <<configVars, serverVars, netVars>>

Client ==
    \/ GenerateEphemeral
    \/ SendClientHello
    \/ ReadServerHello
    \/ DeriveSecrets
    \/ SendClientAuth
    \/ ReadServerAccept
    \/ CloseStream
    \/ Return

(***************************************************************************)
(* The responder: the structural mirror of the client role.                *)
(***************************************************************************)
\* ClientAuth verification by a server holding skp, net key nk, secrets a, b
AuthVerify(m, skp, nk, a, b) ==
    /\ m.kind = "auth"
    /\ ~m.flip
    /\ m.box = <<nk, a, b>>
    /\ m.sig = ClientSig(IdOf(m.pk), Pk(skp), nk, a)

\* the responder fails: it closes its end and reports e
ServerFail(e) ==
    /\ s_result' = e
    /\ s_pc' = "returned"
    /\ s2c_eof' = TRUE

\* receive ClientHello and verify it against the network key
ServerReadHello ==
    /\ s_pc = "read_hello"
    /\ \/ /\ c2s # <<>>
          /\ c2s' = Tail(c2s)
          /\ IF HelloVerify(Head(c2s), s_net_key) = NoKey
             THEN /\ ServerFail(Err("ClientHelloVerifyFailed"))
                  /\ UNCHANGED s_client_eph_pk
             ELSE /\ s_client_eph_pk' = HelloVerify(Head(c2s), s_net_key)
                  /\ s_pc' = "send_hello"
                  /\ UNCHANGED <<s_result, s2c_eof>>
       \/ /\ c2s = <<>> /\ c2s_eof
          /\ ServerFail(IoErr("UnexpectedEof"))
          /\ UNCHANGED <<c2s, s_client_eph_pk>>
    /\ UNCHANGED <<s_eph, s_a, s_b, s_c, s_client_pk, s_client_sig>>
    /\ UNCHANGED <<configVars, clientVars, s2c, c2s_eof, injected>>

\* generate the ephemeral keypair, send ServerHello, compute A and B
ServerSendHello ==
    /\ s_pc = "send_hello"
    /\ \E e \in ServerEphs :
        /\ s_eph' = e
        /\ s2c' = Append(s2c, HelloNew(Pk(e), s_net_key))
        /\ s_a' = DeriveSharedSecret(Sk(e), s_client_eph_pk)
        /\ s_b' = DeriveSharedSecret(Sk(s_keypair), s_client_eph_pk)
    /\ s_pc' = "read_auth"
    /\ UNCHANGED <<s_client_eph_pk, s_c, s_client_pk, s_client_sig, s_result>>
    /\ UNCHANGED <<configVars, clientVars, c2s, c2s_eof, s2c_eof, injected>>

\* receive ClientAuth, verify it, learn the client's identity, compute C
ServerReadAuth ==
    /\ s_pc = "read_auth"
    /\ \/ /\ c2s # <<>>
          /\ c2s' = Tail(c2s)
          /\ IF AuthVerify(Head(c2s), s_keypair, s_net_key, s_a, s_b)
             THEN /\ s_client_pk' = Head(c2s).pk
                  /\ s_client_sig' = Head(c2s).sig
                  /\ s_c' = DeriveSharedSecret(Sk(s_eph), Head(c2s).pk)
                  /\ IF s_c' = {}
                     THEN ServerFail(Err("SharedCInvalid"))
                     ELSE /\ s_pc' = "send_accept"
                          /\ UNCHANGED <<s_result, s2c_eof>>
             ELSE /\ ServerFail(Err("ClientAuthVerifyFailed"))
                  /\ UNCHANGED <<s_client_pk, s_client_sig, s_c>>
       \/ /\ c2s = <<>> /\ c2s_eof
          /\ ServerFail(IoErr("UnexpectedEof"))
          /\ UNCHANGED <<c2s, s_client_pk, s_client_sig, s_c>>
    /\ UNCHANGED <<s_eph, s_client_eph_pk, s_a, s_b>>
    /\ UNCHANGED <<configVars, clientVars, s2c, c2s_eof, injected>>

\* the responder's bundle: the mirror of the client's
ServerBundle ==
    [read_key |-> ClientToServerKey(Pk(s_keypair), s_net_key, s_a, s_b, s_c),
     read_starting_nonce |-> StartingNonce(s_net_key, Pk(s_eph)),
     write_key |-> ServerToClientKey(s_client_pk, s_net_key, s_a, s_b, s_c),
     write_starting_nonce |-> StartingNonce(s_net_key, s_client_eph_pk),
     peer_key |-> s_client_pk]

\* send ServerAccept and return the keys
ServerSendAccept ==
    /\ s_pc = "send_accept"
    /\ s2c' = Append(s2c, ServerAcceptNew(s_keypair, s_client_pk, s_client_sig,
                                           s_net_key, s_a, s_b, s_c))
    /\ s_result' = Ok(ServerBundle)
    /\ s_pc' = "returned"
    /\ UNCHANGED <<s_eph, s_client_eph_pk, s_a, s_b, s_c, s_client_pk, s_client_sig>>
    /\ UNCHANGED <<configVars, clientVars, c2s, c2s_eof, s2c_eof, injected>>

Server ==
    \/ ServerReadHello
    \/ ServerSendHello
    \/ ServerReadAuth
    \/ ServerSendAccept

(***************************************************************************)
(* The network, when it is not reliable: it may put a record of its own    *)
(* into the server-to-client direction, or change a bit of one in flight.  *)
(***************************************************************************)
\* the ClientHello seen on the wire, sent back
Reflected ==
    IF pc \notin {"start", "send_hello"} /\ trace[1].io = "ok"
    THEN {HelloNew(Pk(eph), net_key)} ELSE {}

\* hellos of a party that knows a network key: a ServerHello captured in an
\* earlier attempt, or one carrying a low-order point
ForgedHellos == {HelloNew(Pk(k), n) : k \in ServerEphs \cup {LowOrder}, n \in NetKeys}

\* the ServerAccept a server s produced in an attempt of the same client with
\* ephemeral keypairs ce and se
AcceptOf(s, ce, se) ==
    LET a == DeriveSharedSecret(Sk(se), Pk(ce))
        b == DeriveSharedSecret(Sk(s), Pk(ce))
        c == DeriveSharedSecret(Sk(se), Pk(keypair))
    IN  ServerAcceptNew(s, Pk(keypair), ClientSig(keypair, Pk(s), net_key, a),
                        net_key, a, b, c)

\* accepts captured in an earlier attempt (another client ephemeral keypair),
\* and accepts of a server whose long-term key is not the one the client expects
ForgedAccepts ==
    {AcceptOf(s, ce, se) : s \in ServerIds, ce \in ClientEphs \ {eph}, se \in ServerEphs}
    \cup {AcceptOf(s, eph, se) : s \in {x \in ServerIds : Pk(x) # server_pk},
                                 se \in ServerEphs}

\* what the client is waiting to read, if it is waiting
Reading == IF pc = "read_hello" THEN {"ServerHello"}
           ELSE IF pc = "read_accept" THEN {"ServerAccept"} ELSE {}

\* the network puts a record of its own in front of what the client is about
\* to read; a second one in front of it would only hide the first
Inject ==
    /\ ~reliable
    /\ Reading # {}
    /\ Reading \cap injected = {}
    /\ \E m \in Reflected \cup ForgedHellos \cup ForgedAccepts :
        s2c' = <<m>> \o s2c
    /\ injected' = injected \cup Reading
    /\ UNCHANGED <<configVars, clientVars, serverVars, c2s, c2s_eof, s2c_eof>>

\* the network changes a bit of the record the client is about to read
Corrupt ==
    /\ ~reliable
    /\ Reading # {}
    /\ s2c # <<>>
    /\ ~s2c[1].flip
    /\ s2c' = [s2c EXCEPT ![1].flip = TRUE]
    /\ UNCHANGED <<configVars, clientVars, serverVars, c2s, c2s_eof, s2c_eof, injected>>

Network == Inject \/ Corrupt

(***************************************************************************)
(* The system.                                                             *)
(***************************************************************************)
\* client_side is called with any network key, with a keypair that converts to
\* a curve scalar or does not, and with any public key as the server's; the
\* responder it reaches is one server, on network 1.  A client given its own
\* public key as the server's reaches a responder that holds its own keypair.
Init ==
    /\ net_key \in NetKeys
    /\ reliable \in BOOLEAN
    /\ s_net_key = 1
    /\ \/ /\ keypair \in ClientIds \cup {LowOrder}
          /\ server_pk \in {Pk(k) : k \in ServerIds \cup {LowOrder}}
          /\ s_keypair = <<"server", 1>>
       \/ /\ keypair \in ClientIds
          /\ server_pk = Pk(keypair)
          /\ s_keypair = keypair
    /\ pc = "start"
    /\ eph = LowOrder
    /\ hello_buf = NoMsg
    /\ accept_buf = NoMsg
    /\ server_eph_pk = NoKey
    /\ shared_a = {}
    /\ shared_b = {}
    /\ shared_c = {}
    /\ computed = {}
    /\ r = Pending
    /\ result = Pending
    /\ closes = <<>>
    /\ trace = <<>>
    /\ c2s = <<>>
    /\ s2c = <<>>
    /\ c2s_eof = FALSE
    /\ s2c_eof = FALSE
    /\ injected = {}
    /\ s_pc = "read_hello"
    /\ s_eph = LowOrder
    /\ s_client_eph_pk = NoKey
    /\ s_a = {}
    /\ s_b = {}
    /\ s_c = {}
    /\ s_client_pk = NoKey
    /\ s_client_sig = Sign(LowOrder, <<>>)
    /\ s_result = Pending

Next == Client \/ Server \/ Network

Spec == Init /\ [][Next]_vars

\* every step that is enabled is eventually taken: the executor polls the two
\* futures until they complete
FairSpec == Spec /\ WF_vars(Client) /\ WF_vars(Server)

(***************************************************************************)
(* Properties.                                                             *)
(***************************************************************************)
\* the four transport operations of the client role, in protocol order
Order == <<"ClientHello", "ServerHello", "ClientAuth", "ServerAccept">>

OpOf == <<"write", "read", "write", "read">>

\* the first n transport operations have completed, all of them successfully
Completed(n) == Len(trace) >= n /\ \A i \in 1..n : trace[i].io = "ok"

\* the body of the handshake is over
BodyOver == pc \in {"try_done", "closed", "returned"}

\* C1: the client's transport operations occur in the order write ClientHello,
\* read ServerHello, write ClientAuth, read ServerAccept; each at most once; the
\* one in progress is the successor of the completed ones; and an operation
\* only follows operations that all succeeded.
C1_StrictOrder ==
    /\ Len(trace) <= 4
    /\ \A i \in 1..Len(trace) : trace[i].msg = Order[i] /\ trace[i].op = OpOf[i]
    /\ \A i \in 1..(Len(trace) - 1) : trace[i].io = "ok"
    /\ pc \in {"start", "send_hello"} => trace = <<>>
    /\ pc = "read_hello" => Len(trace) = 1 /\ Completed(1)
    /\ pc \in {"derive", "send_auth"} => Len(trace) = 2 /\ Completed(2)
    /\ pc = "read_accept" => Len(trace) = 3 /\ Completed(3)
    /\ (~BodyOver) => r = Pending

\* C1 witness: all four operations have completed, in a returned run
C1_Witness == pc = "returned" /\ Completed(4)

\* everything the success of a run rests on, read off the state
AllVerified ==
    /\ Completed(4)
    /\ HelloVerify(hello_buf, net_key) # NoKey
    /\ SharedAClientSide(Sk(eph), hello_buf.pk) # {}
    /\ SharedBClientSide(Sk(eph), server_pk) # {}
    /\ SharedCClientSide(keypair, hello_buf.pk) # {}
    /\ AcceptVerify(accept_buf, keypair, server_pk, net_key,
                    SharedAClientSide(Sk(eph), hello_buf.pk),
                    SharedBClientSide(Sk(eph), server_pk),
                    SharedCClientSide(keypair, hello_buf.pk))

\* C2: the result is Ok, with a bundle, only if the ServerHello verified, the
\* secrets A, B and C were valid and the ServerAccept verified; a run in which
\* any of them or a transport operation failed returns an error and no bundle.
C2_OkOnlyIfAllVerified ==
    /\ r.tag = "Ok" => AllVerified /\ Len(r.keys) = 1
    /\ r.tag = "Err" => r.keys = <<>>
    /\ pc = "returned" =>
        /\ result.tag \in {"Ok", "Err"}
        /\ result.tag = "Ok" <=> AllVerified
        /\ result.tag = "Ok" => Len(result.keys) = 1
        /\ result.tag = "Err" => result.keys = <<>>
    /\ pc # "returned" => result = Pending

\* C2 witness: a run has returned Ok
C2_Witness == pc = "returned" /\ result.tag = "Ok" /\ Len(result.keys) = 1

\* C3: when the handshake fails, for whatever reason, close has been invoked
\* on the transport by the time client_side returns the error.
C3_CloseBeforeError ==
    /\ pc = "returned" /\ result.tag = "Err" => Len(closes) >= 1
    /\ pc = "closed" => Len(closes) >= 1 /\ result = Pending

\* C3 witness: a run that failed verifying the ServerAccept has returned, closed
C3_Witness ==
    /\ pc = "returned"
    /\ result = Err("ServerAcceptVerifyFailed")
    /\ Len(closes) = 1

\* C4: the close and its outcome leave the body's error as it is, and that
\* error is what client_side returns.
C4_CloseErrorDiscarded ==
    /\ [][pc = "try_done" /\ pc' = "closed" => r' = r /\ r.tag = "Err"]_vars
    /\ [][pc = "closed" /\ pc' = "returned" => result' = r /\ r' = r]_vars

\* C4 witness: the close failed and the run returned a verification error
C4_Witness ==
    /\ pc = "returned"
    /\ closes # <<>>
    /\ closes[1] # "ok"
    /\ result = Err("ServerHelloVerifyFailed")

\* client and responder share the network key, the client knows the
\* responder's long-term public key, its own keypair is valid, and the
\* transports are reliable
MatchedPeers ==
    /\ reliable
    /\ net_key = s_net_key
    /\ server_pk = Pk(s_keypair)
    /\ keypair \in ClientIds

\* the two bundles cross-match
CrossMatch(c, s) ==
    /\ c.write_key = s.read_key
    /\ c.read_key = s.write_key
    /\ c.write_starting_nonce = s.read_starting_nonce
    /\ c.read_starting_nonce = s.write_starting_nonce

\* C5: with matched peers over reliable transports neither side ever fails,
\* the run cannot stop before both sides have returned, and once both have
\* returned both results are Ok and the bundles cross-match.
C5_BundlesCrossMatch ==
    MatchedPeers =>
        /\ r.tag # "Err"
        /\ s_result.tag # "Err"
        /\ (~ENABLED Next) => pc = "returned" /\ s_pc = "returned"
        /\ pc = "returned" /\ s_pc = "returned" =>
            /\ result.tag = "Ok"
            /\ s_result.tag = "Ok"
            /\ CrossMatch(result.keys[1], s_result.keys[1])

\* C5 witness: matched peers have both returned Ok
C5_Witness ==
    /\ MatchedPeers
    /\ pc = "returned" /\ result.tag = "Ok"
    /\ s_pc = "returned" /\ s_result.tag = "Ok"

\* a whole ServerHello record has been read
HelloRead == Len(trace) >= 2 /\ trace[2].io = "ok"

\* a whole ServerAccept record has been read
AcceptRead == Len(trace) >= 4 /\ trace[4].io = "ok"

\* C6: a shared secret is derived, and server_eph_pk is bound, only from a
\* ServerHello that passed the network-key check; after a ServerHello that
\* failed it, no secret is derived, no key is bound and the run is not Ok.
C6_HelloKeyOnlyAfterVerify ==
    /\ (computed # {} \/ server_eph_pk # NoKey \/ r.tag = "Ok") =>
        /\ HelloRead
        /\ HelloVerify(hello_buf, net_key) # NoKey
        /\ server_eph_pk = hello_buf.pk
    /\ (HelloRead /\ HelloVerify(hello_buf, net_key) = NoKey) =>
        /\ computed = {}
        /\ server_eph_pk = NoKey
        /\ shared_a = {} /\ shared_b = {} /\ shared_c = {}
        /\ r.tag = "Err"
    /\ r.tag = "Ok" =>
        r.keys[1].write_starting_nonce = StartingNonce(net_key, hello_buf.pk)

\* C6 witness: a ServerHello that fails the check has been read, and the run
\* has returned
C6_Witness ==
    /\ pc = "returned"
    /\ HelloRead
    /\ hello_buf.kind = "hello"
    /\ HelloVerify(hello_buf, net_key) = NoKey

\* C7: a transport error is the last operation of the run: the body is over,
\* its result is that I/O error, and the run returns it after closing.
C7_IoErrorAborts ==
    \A i \in 1..Len(trace) :
        trace[i].io # "ok" =>
            /\ i = Len(trace)
            /\ BodyOver
            /\ r = IoErr(trace[i].io)
            /\ pc = "returned" => result = IoErr(trace[i].io) /\ Len(closes) = 1
            /\ Len(SelectSeq(trace, LAMBDA t : t.op = "write" /\ t.io = "ok"))
                 = Cardinality({j \in 1..(i - 1) : OpOf[j] = "write"})

\* C7 witness: the read of the ServerAccept came up short and the run returned
C7_Witness ==
    /\ pc = "returned"
    /\ Len(trace) = 4
    /\ trace[4].io = "UnexpectedEof"
    /\ result = IoErr("UnexpectedEof")

\* the ServerAccept read passes verification under the secrets the client holds
AcceptOk ==
    AcceptVerify(accept_buf, keypair, server_pk, net_key, shared_a, shared_b, shared_c)

\* C8: a ServerHello read in full that fails verification ends the body with
\* ServerHelloVerifyFailed and ClientAuth unwritten; a ServerAccept read in
\* full that fails verification ends it with ServerAcceptVerifyFailed; and
\* each of the two errors is reported for that message only.
C8_VerifyErrors ==
    /\ (HelloRead /\ HelloVerify(hello_buf, net_key) = NoKey) =>
        /\ r = Err("ServerHelloVerifyFailed")
        /\ Len(trace) = 2
        /\ pc = "returned" => result = Err("ServerHelloVerifyFailed")
    /\ (AcceptRead /\ ~AcceptOk) =>
        /\ r = Err("ServerAcceptVerifyFailed")
        /\ pc = "returned" => result = Err("ServerAcceptVerifyFailed")
    /\ \A x \in {r, result} :
        /\ x.err = "ServerHelloVerifyFailed" =>
            HelloRead /\ Len(trace) = 2 /\ HelloVerify(hello_buf, net_key) = NoKey
        /\ x.err = "ServerAcceptVerifyFailed" => AcceptRead /\ ~AcceptOk

\* C8 witness: a verified ServerHello was followed by a ServerAccept that
\* failed verification
C8_Witness ==
    /\ pc = "returned"
    /\ AcceptRead
    /\ accept_buf.kind = "accept"
    /\ ~AcceptOk
    /\ result = Err("ServerAcceptVerifyFailed")

\* the ServerHello has been read and verified and the secrets derived
Derived == HelloRead /\ HelloVerify(hello_buf, net_key) # NoKey /\ pc # "derive"

\* C9: after a verified ServerHello, an invalid A ends the body with
\* SharedAInvalid, a valid A with an invalid B ends it with SharedBInvalid,
\* and in both cases ClientAuth is never written.
C9_NoAuthAfterInvalidAB ==
    Derived =>
        LET a == SharedAClientSide(Sk(eph), hello_buf.pk)
            b == SharedBClientSide(Sk(eph), server_pk)
        IN  /\ a = {} => r = Err("SharedAInvalid")
            /\ (a # {} /\ b = {}) => r = Err("SharedBInvalid")
            /\ (a = {} \/ b = {}) =>
                /\ Len(trace) = 2
                /\ BodyOver
                /\ \A i \in 1..Len(c2s) : c2s[i].kind # "auth"
                /\ s_pc # "send_accept"
                /\ pc = "returned" => result = r

\* C9 witness: the ServerHello verified, A is valid, B is not, the run returned
C9_Witness ==
    /\ pc = "returned"
    /\ Derived
    /\ SharedAClientSide(Sk(eph), hello_buf.pk) # {}
    /\ SharedBClientSide(Sk(eph), server_pk) = {}
    /\ result = Err("SharedBInvalid")

\* the ServerHello read carries an authenticator made under another network key
ForeignHello ==
    /\ HelloRead
    /\ hello_buf.kind = "hello"
    /\ hello_buf.hmac = <<hello_buf.hmac[1], hello_buf.pk>>
    /\ hello_buf.hmac[1] # net_key

\* C10: a ServerHello authenticated under another network key always fails
\* verification: the body is over with ServerHelloVerifyFailed, the run is
\* never Ok, and until it has returned that error its next step is enabled.
C10_ForeignNetworkKeyFails ==
    ForeignHello =>
        /\ BodyOver
        /\ r = Err("ServerHelloVerifyFailed")
        /\ pc = "returned" => result = Err("ServerHelloVerifyFailed")
        /\ pc # "returned" => result = Pending /\ ENABLED (CloseStream \/ Return)

\* C10 witness: an intact ServerHello under another network key was read and
\* the run returned
C10_Witness ==
    /\ ForeignHello
    /\ ~hello_buf.flip
    /\ pc = "returned"

\* the client was given a long-term public key that is not its responder's
WrongServerKey == server_pk # Pk(s_keypair)

\* C11 as stated: with a server_pk that is not the responder's key, a run
\* over reliable transports, on the responder's network and with valid keys,
\* ends in ServerAcceptVerifyFailed.
C11_FailsAtAcceptVerification ==
    (/\ WrongServerKey
     /\ reliable
     /\ net_key = s_net_key
     /\ IdOf(server_pk) \in ServerIds
     /\ keypair \in ClientIds
     /\ pc = "returned") => result = Err("ServerAcceptVerifyFailed")

\* C11 amended: with a server_pk that is not the responder's key the run is
\* never Ok; a ServerAccept read in full fails verification; a run that ends
\* before reading one ends with an I/O error at the ServerAccept read or
\* earlier, or with an invalid shared secret.
C11_WrongServerKeyNeverOk ==
    WrongServerKey =>
        /\ r.tag # "Ok"
        /\ result.tag # "Ok"
        /\ AcceptRead => ~AcceptOk /\ r = Err("ServerAcceptVerifyFailed")
        /\ (pc = "returned" /\ ~AcceptRead) =>
            result.err \in {"Io", "ServerHelloVerifyFailed", "SharedAInvalid",
                            "SharedBInvalid", "SharedCInvalid"}

\* C11 witness: the ServerHello verified, and the responder's own intact
\* ServerAccept, made for this attempt, was read and failed verification
C11_Witness ==
    /\ WrongServerKey
    /\ pc = "returned"
    /\ HelloVerify(hello_buf, net_key) # NoKey
    /\ AcceptRead
    /\ accept_buf.kind = "accept"
    /\ ~accept_buf.flip
    /\ accept_buf.sig[1] = s_keypair
    /\ accept_buf.box[2] = shared_a
    /\ result = Err("ServerAcceptVerifyFailed")

\* the valid ServerHellos of earlier attempts on the client's network
CapturedHellos == {HelloNew(Pk(se), net_key) : se \in ServerEphs}

\* the valid ServerAccepts of earlier attempts of this client, which used
\* another client ephemeral keypair
CapturedAccepts ==
    {AcceptOf(s, ce, se) : s \in ServerIds, ce \in ClientEphs \ {eph}, se \in ServerEphs}

\* the ServerHello read is an intact one of an earlier attempt, put in by the
\* network, and not the one the responder sends in this attempt
ReplayedHello ==
    /\ HelloRead
    /\ "ServerHello" \in injected
    /\ hello_buf.kind = "hello"
    /\ ~hello_buf.flip
    /\ hello_buf \in CapturedHellos
    /\ IdOf(hello_buf.pk) # s_eph

\* the ServerAccept read is an intact one of an earlier attempt, put in by the
\* network
ReplayedAccept ==
    /\ AcceptRead
    /\ "ServerAccept" \in injected
    /\ accept_buf.kind = "accept"
    /\ ~accept_buf.flip
    /\ accept_buf \in CapturedAccepts

\* C12 as stated: a replayed ServerHello and a replayed ServerAccept each fail
\* the verification of that message in the fresh attempt.
C12_ReplayFailsVerification ==
    /\ ReplayedHello =>
        HelloVerify(hello_buf, net_key) = NoKey /\ r = Err("ServerHelloVerifyFailed")
    /\ ReplayedAccept => ~AcceptOk /\ r = Err("ServerAcceptVerifyFailed")

\* C12 amended: a replayed ServerAccept fails verification in the fresh
\* attempt; a replayed ServerHello passes the ServerHello verification, being
\* bound to the network key only, and the attempt it entered is never Ok.
C12_ReplayedAcceptFails ==
    /\ ReplayedAccept =>
        /\ ~AcceptOk
        /\ r = Err("ServerAcceptVerifyFailed")
        /\ pc = "returned" => result = Err("ServerAcceptVerifyFailed")
    /\ ReplayedHello =>
        /\ HelloVerify(hello_buf, net_key) = hello_buf.pk
        /\ server_eph_pk = hello_buf.pk
        /\ r.err # "ServerHelloVerifyFailed"
        /\ r.tag # "Ok"

\* C12 witness: a replayed ServerHello was accepted, then a replayed
\* ServerAccept was read, and the run has returned
C12_Witness ==
    /\ ReplayedHello
    /\ ReplayedAccept
    /\ pc = "returned"

\* the keys of the bundle are the two directional derivations over the network
\* key and the secrets A, B, C of this attempt, write_key anchored on server_pk
\* and read_key on the client's own long-term public key
KeysAnchored(b) ==
    LET a == SharedAClientSide(Sk(eph), hello_buf.pk)
        bb == SharedBClientSide(Sk(eph), server_pk)
        c == SharedCClientSide(keypair, hello_buf.pk)
    IN  /\ b.write_key = ClientToServerKey(server_pk, net_key, a, bb, c)
        /\ b.read_key = ServerToClientKey(Pk(keypair), net_key, a, bb, c)
        /\ b.peer_key = server_pk

\* C13 as stated: write_key is anchored on the server's long-term public key,
\* read_key on the client's own, and the two anchors are never the same.
C13_DistinctAnchors ==
    r.tag = "Ok" =>
        /\ KeysAnchored(r.keys[1])
        /\ server_pk # Pk(keypair)
        /\ r.keys[1].write_key # r.keys[1].read_key

\* C13 amended: write_key is anchored on server_pk and read_key on the
\* client's own public key; the anchors, and with them the two keys, are the
\* same exactly when the client was given its own public key as server_pk.
C13_KeysAnchored ==
    r.tag = "Ok" =>
        /\ KeysAnchored(r.keys[1])
        /\ r.keys[1].write_key = r.keys[1].read_key <=> server_pk = Pk(keypair)

\* C13 witness: a run with a server key other than the client's own returned Ok
C13_Witness ==
    /\ pc = "returned"
    /\ result.tag = "Ok"
    /\ server_pk # Pk(keypair)
    /\ KeysAnchored(result.keys[1])

\* the run has returned a transport error
ReturnedIoError == pc = "returned" /\ result.err = "Io"

\* C14 as stated: the error returned for an I/O failure tells the step it
\* occurred in: the same I/O failure at another step gives another error.
C14_DistinguishableByStep ==
    ReturnedIoError =>
        \A j \in (1..4) \ {Len(trace)} : ErrorAtStep(j, result.io) # result

\* C14 amended: the error returned for an I/O failure is the Io variant
\* carrying the io::Error of the failed operation, and nothing else: the same
\* I/O failure at any of the four steps gives the same error.
C14_IoErrorCarriesNoStep ==
    ReturnedIoError =>
        /\ trace[Len(trace)].io \in IoErrKinds
        /\ result = IoErr(trace[Len(trace)].io)
        /\ \A j \in 1..4 : ErrorAtStep(j, trace[Len(trace)].io) = result

\* C14 witness: the write of ClientAuth failed and the run returned the error
C14_Witness ==
    /\ ReturnedIoError
    /\ Len(trace) = 3
    /\ trace[3].io = "BrokenPipe"
    /\ result = IoErr("BrokenPipe")

\* the secrets of this attempt, read off the state
SecretA == SharedAClientSide(Sk(eph), hello_buf.pk)

SecretB == SharedBClientSide(Sk(eph), server_pk)

SecretC == SharedCClientSide(keypair, hello_buf.pk)

\* ClientAuth has been written to the transport
AuthWritten == Len(trace) >= 3 /\ trace[3].io = "ok"

\* C15 as stated: in a run where A and B are valid and C is not, ClientAuth
\* has been written when the body fails with SharedCInvalid.
C15_AuthSentBeforeC ==
    r = Err("SharedCInvalid") => AuthWritten

\* C15 amended: shared secret C is derived before ClientAuth is built: a run
\* where A and B are valid and C is not fails with SharedCInvalid without
\* ClientAuth ever being written, and ClientAuth is written only with a valid
\* C in hand.
C15_CBeforeAuth ==
    /\ (Derived /\ SecretA # {} /\ SecretB # {} /\ SecretC = {}) =>
        /\ r = Err("SharedCInvalid")
        /\ Len(trace) = 2
        /\ \A i \in 1..Len(c2s) : c2s[i].kind # "auth"
        /\ s_pc # "send_accept"
        /\ pc = "returned" => result = Err("SharedCInvalid")
    /\ r = Err("SharedCInvalid") => ~AuthWritten
    /\ Len(trace) >= 3 => "C" \in computed /\ shared_c # {} /\ shared_c = SecretC

\* C15 witness: A and B were valid, C was not, and the run has returned
C15_Witness ==
    /\ pc = "returned"
    /\ Derived
    /\ SecretA # {} /\ SecretB # {} /\ SecretC = {}
    /\ computed = {"A", "B", "C"}
    /\ result = Err("SharedCInvalid")

\* C16 as stated: both starting nonces are derived from the network key and
\* the server ephemeral public key received in the ServerHello.
C16_BothNoncesFromServerKey ==
    r.tag = "Ok" =>
        /\ r.keys[1].read_starting_nonce = StartingNonce(net_key, hello_buf.pk)
        /\ r.keys[1].write_starting_nonce = StartingNonce(net_key, hello_buf.pk)

\* C16 amended: read_starting_nonce is derived from the network key and the
\* client's own ephemeral public key, write_starting_nonce from the network
\* key and the server ephemeral public key received in the ServerHello.
C16_NonceSources ==
    r.tag = "Ok" =>
        /\ r.keys[1].read_starting_nonce = StartingNonce(net_key, Pk(eph))
        /\ r.keys[1].write_starting_nonce = StartingNonce(net_key, hello_buf.pk)
        /\ pc = "returned" => result = r

\* C16 witness: a run returned Ok with the two nonces from the two ephemeral keys
C16_Witness ==
    /\ pc = "returned"
    /\ result.tag = "Ok"
    /\ result.keys[1].read_starting_nonce = StartingNonce(net_key, Pk(eph))
    /\ result.keys[1].write_starting_nonce = StartingNonce(net_key, hello_buf.pk)
    /\ hello_buf.pk # Pk(eph)

\* the ServerHello read and verified carries the client's own ephemeral key
EchoedHello ==
    /\ HelloRead
    /\ HelloVerify(hello_buf, net_key) # NoKey
    /\ hello_buf.pk = Pk(eph)

\* C17: in a run that is Ok the two starting nonces differ and come from two
\* different ephemeral public keys; a run in which the peer echoed the
\* client's own ephemeral public key in the ServerHello is never Ok.
C17_NoncesDiffer ==
    /\ r.tag = "Ok" =>
        /\ r.keys[1].read_starting_nonce # r.keys[1].write_starting_nonce
        /\ hello_buf.pk # Pk(eph)
        /\ server_eph_pk # Pk(eph)
    /\ EchoedHello => r.tag # "Ok" /\ result.tag # "Ok"
    /\ (EchoedHello /\ AcceptRead) => r = Err("ServerAcceptVerifyFailed")

\* C17 witness: the echoed ClientHello verified as a ServerHello, an intact
\* ServerAccept was read after it, and the run has returned
C17_Witness ==
    /\ EchoedHello
    /\ server_eph_pk = Pk(eph)
    /\ AcceptRead
    /\ accept_buf.kind = "accept"
    /\ ~accept_buf.flip
    /\ pc = "returned"

\* how far the client and the responder have come
ClientRank ==
    [start |-> 0, send_hello |-> 1, read_hello |-> 2, derive |-> 3, send_auth |-> 4,
     read_accept |-> 5, try_done |-> 6, closed |-> 7, returned |-> 8]

ServerRank ==
    [read_hello |-> 0, send_hello |-> 1, read_auth |-> 2, send_accept |-> 3,
     returned |-> 4]

\* the steps the run has left at most: those of the client, of the responder
\* and of the network
StepsLeft ==
    (ClientRank["returned"] - ClientRank[pc])
    + 2 * (ServerRank["returned"] - ServerRank[s_pc])
    + 2 * (2 - Cardinality(injected))
    + Len(SelectSeq(s2c, LAMBDA m : ~m.flip))

\* C18: every run of client_side returns, Ok or an error, when every transport
\* operation completes and the peer keeps running: until it has returned, a
\* step of the client or of the peer is enabled, so that a fair run cannot
\* halt; and every step leaves fewer steps to take, so that no run goes on
\* for ever.
C18_AlwaysReturns ==
    /\ [](pc # "returned" => ENABLED (Client \/ Server))
    /\ [](pc = "returned" => result.tag \in {"Ok", "Err"})
    /\ [](StepsLeft >= 0)
    /\ [][StepsLeft' < StepsLeft]_vars

\* C18 witness: a run whose read of the ServerAccept had to wait for the peer
\* to close has returned
C18_Witness ==
    /\ pc = "returned"
    /\ reliable
    /\ Len(trace) = 4
    /\ trace[4].io = "UnexpectedEof"
    /\ result.tag = "Err"


\* C19: a successful handshake never closes the transport: it is left open
\* after exactly two writes (ClientHello, ClientAuth) and two reads
\* (ServerHello, ServerAccept), all of them successful; close is invoked at
\* most once in a run, and only after the body has returned an error.
C19_NoCloseOnSuccess ==
    /\ Len(closes) <= 1
    /\ closes # <<>> => r.tag = "Err" /\ pc \in {"closed", "returned"}
    /\ r.tag = "Ok" =>
        /\ closes = <<>>
        /\ ~c2s_eof
        /\ Len(trace) = 4
        /\ Completed(4)
        /\ Cardinality({i \in 1..Len(trace) : trace[i].op = "write"}) = 2
        /\ Cardinality({i \in 1..Len(trace) : trace[i].op = "read"}) = 2
    /\ pc = "returned" /\ result.tag = "Ok" => r = result

\* C19 witness: a successful run has returned with the transport still open
C19_Witness ==
    /\ pc = "returned"
    /\ result.tag = "Ok"
    /\ closes = <<>>
    /\ ~c2s_eof
    /\ Len(trace) = 4

\* C20: of several invalid shared secrets the first in the order A, B, C is
\* the one reported: SharedBInvalid is returned only if A was valid, and
\* SharedCInvalid only if both A and B were valid.
C20_FirstInvalidReported ==
    /\ r = Err("SharedAInvalid") => Derived /\ SecretA = {}
    /\ r = Err("SharedBInvalid") => Derived /\ SecretA # {} /\ SecretB = {}
    /\ r = Err("SharedCInvalid") =>
        Derived /\ SecretA # {} /\ SecretB # {} /\ SecretC = {}
    /\ Derived /\ SecretA = {} => r = Err("SharedAInvalid")
    /\ pc = "returned" /\ result.tag = "Err" /\ r.tag = "Err" => result = r

\* C20 witness: all three shared secrets are invalid and the run has returned
\* SharedAInvalid
C20_Witness ==
    /\ pc = "returned"
    /\ Derived
    /\ SecretA = {}
    /\ SecretB = {}
    /\ SecretC = {}
    /\ result = Err("SharedAInvalid")

=========================================================================
